---- MODULE Spec2Model ----
(***************************************************************************)
(* Compact U(1) lattice gauge theory on a periodic 4-dimensional lattice:  *)
(* the lattice state, the plaquette action, the staple of a link, the      *)
(* rejection sampler and the heatbath sweep of src/src/lattice.rs, and the *)
(* measurement loop of the New command of src/src/main.rs.                 *)
(*                                                                         *)
(* Number representation.  Angles are held exactly, as integers in units   *)
(* of pi/2 (Pi == 2), so cos and sin take the exact values 1, 0, -1, 0 and *)
(* a complex number is a pair <<re, im>> of integers.  Sums and            *)
(* differences of angles are exact integer sums; floating-point rounding   *)
(* of f64 additions is not modelled.  Values the grid cannot hold exactly  *)
(* are rounded to the nearest grid value, as f64 rounds to the nearest     *)
(* representable number: arg(S) and the proposal sample_x.  A magnitude    *)
(* |z| is held by its square.  The IEEE special values that the code can   *)
(* produce (NaN from 0.0/0.0 and inf*0.0, inf from exp overflow) are kept: *)
(* a float that can be special is a record with a "kind" field.            *)
(***************************************************************************)
EXTENDS Integers, Sequences, FiniteSets, TLC

VARIABLES
    width,            \* Lattice.width
    lattice,          \* Lattice.lattice: site <<i,j,k,l>> -> phases[0..3]
    beta,             \* the beta passed to heatbath_sweep
    rng,              \* state of the random source
    pc,               \* position of the caller / of heatbath_sweep
    i, j, k, l, m,    \* loop counters of heatbath_sweep
    other_plaquettes, \* local of heatbath_sweep: the staple sum S
    alpha,            \* local of heatbath_sweep: |S|
    theta_0,          \* local of heatbath_sweep: -arg(S)
    new_theta,        \* local of heatbath_sweep: value returned by sample_theta
    action,           \* value returned by the last average_action call
    sweeps,           \* number of completed heatbath_sweep calls
    lattice0,         \* history: the lattice when the current sweep began
    updates,          \* history: links written by the current sweep, in order
    settings,         \* main: the arguments of the New command
    dpc,              \* main: position of the driver loop
    burn_in,          \* main: heatbath_sweep calls made by the burn-in loop
    meas_i,           \* main: the counter i of the measurement loop
    between,          \* main: heatbath_sweep calls made by the inner loop
    measurement_vector, \* main: the buffer of measurements
    save_counter,     \* main: number of rows written
    action_dataset,   \* the rows of the dataset "action_measurements"
    taken             \* history: every measurement taken, with the sweeps before it

\* the state of the driver loop of main
driver == <<settings, dpc, burn_in, meas_i, between, measurement_vector,
            save_counter, action_dataset, taken>>

vars == <<width, lattice, beta, rng, pc, i, j, k, l, m, other_plaquettes,
          alpha, theta_0, new_theta, action, sweeps, lattice0, updates, driver>>

-----------------------------------------------------------------------------
(* Bounds of the model *)

MaxW == 2
MaxSweeps == 1

Betas == {0, 1, 60}

-----------------------------------------------------------------------------
(* Constants of the program *)

\* std::f64::consts::PI, in units of pi/2
Pi == 2

\* ACCEPTANCE_CONSTANT = 0.2105137, in hundredths
ACCEPTANCE_CONSTANT == 21

UNIT_VECTORS == << <<1, 0, 0, 0>>, <<0, 1, 0, 0>>, <<0, 0, 1, 0>>, <<0, 0, 0, 1>> >>

Axes == 0..3

\* UNIT_VECTORS[m][a] with the code's 0-based indices
Unit(mm, a) == UNIT_VECTORS[mm + 1][a + 1]

-----------------------------------------------------------------------------
(* Floats that can be special *)

Fin(v) == [kind |-> "fin", val |-> v]
NaN == [kind |-> "nan", val |-> 0]
PosInf == [kind |-> "inf", val |-> 0]

\* f64 division sum / n of a finite sum by a count: 0.0/0.0 is NaN, x/0.0 is inf
FDiv(sum, n) ==
    IF n = 0
    THEN IF sum = 0 THEN [kind |-> "nan", num |-> 0, den |-> 1]
                    ELSE [kind |-> "inf", num |-> 0, den |-> 1]
    ELSE [kind |-> "fin", num |-> sum, den |-> n]

\* cos and sin of an angle given in units of pi/2
Cos(phi) == CASE phi % 4 = 0 -> 1
              [] phi % 4 = 1 -> 0
              [] phi % 4 = 2 -> -1
              [] OTHER -> 0

Sin(phi) == CASE phi % 4 = 0 -> 0
              [] phi % 4 = 1 -> 1
              [] phi % 4 = 2 -> 0
              [] OTHER -> -1

\* Complex::from_polar(1.0, phi)
FromPolar(phi) == <<Cos(phi), Sin(phi)>>

CAdd(z, w) == <<z[1] + w[1], z[2] + w[2]>>

\* Complex::abs, held by its square
Abs(z) == [sq |-> z[1] * z[1] + z[2] * z[2]]

AbsInt(n) == IF n < 0 THEN -n ELSE n

\* Complex::arg = atan2(im, re) in (-pi, pi], rounded to the nearest multiple of
\* pi/2 (an odd multiple of pi/4 goes to the real axis); atan2(0, 0) = 0
Arg(z) ==
    IF AbsInt(z[2]) <= AbsInt(z[1])
    THEN IF z[1] >= 0 THEN 0 ELSE IF z[2] >= 0 THEN Pi ELSE -Pi
    ELSE IF z[2] > 0 THEN Pi \div 2 ELSE -(Pi \div 2)

-----------------------------------------------------------------------------
(* The random source: a seedable generator, here with 16 states in place   *)
(* of fastrand's 64-bit state.  f64() returns a multiple of 1/4 in [0,1),  *)
(* given by its numerator 0..3.                                            *)

Seeds == 0..15

RngNext(s) == (5 * s + 3) % 16
RngF64(s) == s \div 4
RngBool(s) == s % 2 = 1

RECURSIVE RngIterate(_, _)
RngIterate(s, n) == IF n = 0 THEN s ELSE RngIterate(RngNext(s), n - 1)

\* the state after n draws; RngNext has period 16
RngSkip(s, n) == RngIterate(s, n % 16)

-----------------------------------------------------------------------------
(* Lattice state *)

Pow4(w) == w * w * w * w

Sites(w) == {<<a, b, c, d>> : a \in 0..(w - 1), b \in 0..(w - 1),
                              c \in 0..(w - 1), d \in 0..(w - 1)}

\* position of a site in the nested iteration order of the 4-level Vec
SiteIndex(x, w) == ((x[1] * w + x[2]) * w + x[3]) * w + x[4]

\* PhaseVector::new_uniform
PhaseVectorUniform == [a \in Axes |-> 0]

\* Lattice::new_uniform
NewUniform(w) == [x \in Sites(w) |-> PhaseVectorUniform]

\* PhaseVector::new_random: phase = rng.f64() * 2.0 * PI for each of the 4 phases
PhaseVectorRandom(s) == [a \in Axes |-> (RngF64(RngSkip(s, a)) * 2 * Pi) \div 4]

\* Lattice::new_random: sites in iteration order, 4 draws each
NewRandom(w, s) == [x \in Sites(w) |-> PhaseVectorRandom(RngSkip(s, 4 * SiteIndex(x, w)))]

-----------------------------------------------------------------------------
(* Periodic indexing, one coordinate c on array axis a *)

\* the forward index without the reduction modulo the width
FwdIdxNoWrap(c, mm, a, w) == c + Unit(mm, a)

\* (c + UNIT_VECTORS[mm][a]) % self.width
FwdIdx(c, mm, a, w) == (c + Unit(mm, a)) % w

\* (c + self.width - UNIT_VECTORS[n][a]) % self.width
BwdIdx(c, n, a, w) == (c + w - Unit(n, a)) % w

\* (c + self.width - UNIT_VECTORS[n][a] + UNIT_VECTORS[mm][a]) % self.width
BwdFwdIdx(c, n, mm, a, w) == (c + w - Unit(n, a) + Unit(mm, a)) % w

Forward(x, mm, w) == <<FwdIdx(x[1], mm, 0, w), FwdIdx(x[2], mm, 1, w),
                       FwdIdx(x[3], mm, 2, w), FwdIdx(x[4], mm, 3, w)>>

Backward(x, n, w) == <<BwdIdx(x[1], n, 0, w), BwdIdx(x[2], n, 1, w),
                       BwdIdx(x[3], n, 2, w), BwdIdx(x[4], n, 3, w)>>

BackwardForward(x, n, mm, w) ==
    <<BwdFwdIdx(x[1], n, mm, 0, w), BwdFwdIdx(x[2], n, mm, 1, w),
      BwdFwdIdx(x[3], n, mm, 2, w), BwdFwdIdx(x[4], n, mm, 3, w)>>

-----------------------------------------------------------------------------
(* average_action *)

\* the plaquette phase with phase3 added instead of subtracted
PlaquettePhaseSignSlip(lat, w, x, mm, n) ==
    lat[x][mm] + lat[Forward(x, mm, w)][n] + lat[Forward(x, n, w)][mm] - lat[x][n]

\* phase1 + phase2 - phase3 - phase4 of average_action at site x, axes mm, n
PlaquettePhase(lat, w, x, mm, n) ==
    lat[x][mm] + lat[Forward(x, mm, w)][n] - lat[Forward(x, n, w)][mm] - lat[x][n]

\* the inner loop starting at m instead of m + 1
InnerLoopFromM(mm) == [t \in 1..(4 - mm) |-> <<mm, mm + t - 1>>]

\* for n in m + 1..4
InnerLoop(mm) == [t \in 1..(4 - (mm + 1)) |-> <<mm, mm + t>>]

\* for m in 0..3 { for n in m + 1..4 }: the axis pairs in the order visited
PairLoop == InnerLoop(0) \o InnerLoop(1) \o InnerLoop(2)

\* for i, j, k, l in 0..self.width: the sites in the order visited
SiteLoop(w) ==
    [t \in 1..Pow4(w) |-> <<((t - 1) \div (w * w * w)) % w, ((t - 1) \div (w * w)) % w,
                            ((t - 1) \div w) % w, (t - 1) % w>>]

\* the terms of the sum, in the order added: site, axes, phase
ActionTerms(lat, w) ==
    LET pairs == PairLoop
        np == Len(pairs)
        sl == SiteLoop(w)
    IN  [t \in 1..(Len(sl) * np) |->
            LET x == sl[((t - 1) \div np) + 1]
                p == pairs[((t - 1) % np) + 1]
            IN  [site |-> x, m |-> p[1], n |-> p[2],
                 phi |-> PlaquettePhase(lat, w, x, p[1], p[2])]]

\* sum += 1.0 - (phase1 + phase2 - phase3 - phase4).cos(), over terms lo..hi
\* (the integer sum is exact, so it is added up by halves)
RECURSIVE SumAction(_, _, _)
SumAction(terms, lo, hi) ==
    IF lo > hi THEN 0
    ELSE IF lo = hi THEN 1 - Cos(terms[lo].phi)
    ELSE LET mid == (lo + hi) \div 2
         IN  SumAction(terms, lo, mid) + SumAction(terms, mid + 1, hi)

\* (6 * self.width.pow(4)) as f64
NumPlaquettes(w) == 6 * Pow4(w)

AverageAction(lat, w) ==
    LET terms == ActionTerms(lat, w)
    IN  FDiv(SumAction(terms, 1, Len(terms)), NumPlaquettes(w))

-----------------------------------------------------------------------------
(* plaquettes_without_link *)

\* phase1 - phase2 - phase3
ForwardStapleAngle(lat, w, x, mm, n) ==
    lat[Forward(x, mm, w)][n] - lat[Forward(x, n, w)][mm] - lat[x][n]

\* the backward staple with phase5 read at n - nu instead of n - nu + mu
BackwardStapleAngleWrongSite(lat, w, x, mm, n) ==
    - lat[Backward(x, n, w)][mm] - lat[Backward(x, n, w)][n]
    + lat[Backward(x, n, w)][n]

\* -phase4 - phase5 + phase6
BackwardStapleAngle(lat, w, x, mm, n) ==
    - lat[Backward(x, n, w)][mm] - lat[BackwardForward(x, n, mm, w)][n]
    + lat[Backward(x, n, w)][n]

\* lambda1 + lambda2 of one loop iteration
StapleTerm(lat, w, x, mm, n) ==
    IF mm # n
    THEN CAdd(FromPolar(ForwardStapleAngle(lat, w, x, mm, n)),
              FromPolar(BackwardStapleAngle(lat, w, x, mm, n)))
    ELSE <<0, 0>>

PlaquettesWithoutLink(lat, w, x, mm) ==
    CAdd(CAdd(StapleTerm(lat, w, x, mm, 0), StapleTerm(lat, w, x, mm, 1)),
         CAdd(StapleTerm(lat, w, x, mm, 2), StapleTerm(lat, w, x, mm, 3)))

-----------------------------------------------------------------------------
(* sample_theta *)

\* prefactor = alpha * beta, held by its square and the sign of beta
Prefactor(al, b) == [sq |-> al.sq * b * b, neg |-> b < 0]

\* (2.0 * prefactor).exp() is +inf above 709.78
ExpOverflows(pf) == ~pf.neg /\ 4 * pf.sq > 709 * 709

\* sample_x = -1.0 + (1.0 / prefactor) * (1.0 + ((2.0 * prefactor).exp() - 1.0) * u).ln()
\*   prefactor = 0: (1/0) * ln(1 + 0 * u) = inf * 0 = NaN
\*   exp overflow:  u = 0 gives inf * 0 = NaN, u > 0 gives ln(inf) = inf
\*   otherwise:     u = 0 gives exactly -1; the value lies in [-1, 1) and is rounded
\*                  to the nearest integer: u = 1/4 is below 1/2 up to prefactor^2 = 7,
\*                  u = 1/2 up to prefactor^2 = 1, u = 3/4 never
SampleX(pf, u) ==
    IF pf.sq = 0 THEN NaN
    ELSE IF ExpOverflows(pf) THEN (IF u = 0 THEN NaN ELSE PosInf)
    ELSE IF u = 0 THEN Fin(-1)
    ELSE IF u = 1 THEN (IF pf.sq <= 7 THEN Fin(0) ELSE Fin(1))
    ELSE IF u = 2 THEN (IF pf.sq <= 1 THEN Fin(0) ELSE Fin(1))
    ELSE Fin(1)

\* ln(4 / u) in hundredths, for a draw u/4 > 0
LnInvDraw(u) == CASE u = 1 -> 139 [] u = 2 -> 69 [] OTHER -> 29

\* acceptance_probability(x, prefactor): NaN when x is NaN or infinite (cos(inf) is
\* NaN); at an integer x the exponent cos(pi/2 (1 - x)) - x is 0 and the value is
\* exp(-ACCEPTANCE_CONSTANT * prefactor), returned as the number of draws u/4 below it
AcceptanceProbability(x, pf) ==
    IF x.kind # "fin" THEN NaN
    ELSE Fin(Cardinality({u \in 0..3 :
                \/ u = 0
                \/ pf.neg
                \/ ACCEPTANCE_CONSTANT * ACCEPTANCE_CONSTANT * pf.sq
                       < LnInvDraw(u) * LnInvDraw(u)}))

\* rng.f64() < acceptance_probability(sample_x, prefactor): false against NaN
Accepts(u, acc) == acc.kind = "fin" /\ u < acc.val

\* theta = (PI / 2.0) * (1.0 - sample_x); if rng.bool() { theta = -theta }
ThetaOf(x, flip) ==
    LET theta == (Pi \div 2) * (1 - x.val)
    IN  IF flip THEN -theta ELSE theta

-----------------------------------------------------------------------------
(* heatbath_sweep *)

site == <<i, j, k, l>>

\* the staple of the current link from the lattice as it was when the sweep began
SnapshotStaple == PlaquettesWithoutLink(lattice0, width, site, m)

\* the staple of the current link, from the lattice as it is now
CurrentStaple == PlaquettesWithoutLink(lattice, width, site, m)

\* the loop counters with the l loop running over 0..width - 1 only
NextLinkShortL(c, w) ==
    IF c[5] + 1 < 4 THEN <<c[1], c[2], c[3], c[4], c[5] + 1>>
    ELSE IF c[4] + 1 < w - 1 THEN <<c[1], c[2], c[3], c[4] + 1, 0>>
    ELSE IF c[3] + 1 < w THEN <<c[1], c[2], c[3] + 1, 0, 0>>
    ELSE IF c[2] + 1 < w THEN <<c[1], c[2] + 1, 0, 0, 0>>
    ELSE <<c[1] + 1, 0, 0, 0, 0>>

\* the loop counters after the body for <<i, j, k, l, m>>; i = width ends the sweep
NextLink(c, w) ==
    IF c[5] + 1 < 4 THEN <<c[1], c[2], c[3], c[4], c[5] + 1>>
    ELSE IF c[4] + 1 < w THEN <<c[1], c[2], c[3], c[4] + 1, 0>>
    ELSE IF c[3] + 1 < w THEN <<c[1], c[2], c[3] + 1, 0, 0>>
    ELSE IF c[2] + 1 < w THEN <<c[1], c[2] + 1, 0, 0, 0>>
    ELSE <<c[1] + 1, 0, 0, 0, 0>>

\* new_theta + theta_0
NewAngle(theta, t0) == theta + t0

\* an assignment that overwrites the whole PhaseVector of the site
WriteWholeVector(lat, x, mm, v) == [lat EXCEPT ![x] = [a \in Axes |-> v]]

\* (*self).lattice[i][j][k][l].phases[m] = new_theta + theta_0
WriteAngle(lat, x, mm, v) == [lat EXCEPT ![x][mm] = v]

locals == <<other_plaquettes, alpha, theta_0, new_theta>>
counters == <<i, j, k, l, m>>
history == <<lattice0, updates>>

\* the library is used by a caller other than the driver loop of main
NoDriver ==
    /\ settings = [measurements |-> 0, equilibration_sweeps |-> 0,
                   sweeps_between_measurements |-> 0, interval |-> 0]
    /\ dpc = "none"
    /\ burn_in = 0 /\ meas_i = 0 /\ between = 0
    /\ measurement_vector = <<>>
    /\ save_counter = 0
    /\ action_dataset = <<>>
    /\ taken = <<>>

Init ==
    /\ width \in 0..MaxW
    /\ beta \in Betas
    /\ \E seed \in Seeds, ordered \in BOOLEAN :
          IF ordered
          THEN lattice = NewUniform(width) /\ rng = seed
          ELSE lattice = NewRandom(width, seed)
               /\ rng = RngSkip(seed, 4 * Pow4(width))
    /\ pc = "idle"
    /\ i = 0 /\ j = 0 /\ k = 0 /\ l = 0 /\ m = 0
    /\ other_plaquettes = <<0, 0>>
    /\ alpha = [sq |-> 0]
    /\ theta_0 = 0
    /\ new_theta = 0
    /\ action = FDiv(0, 1)
    /\ sweeps = 0
    /\ lattice0 = lattice
    /\ updates = <<>>
    /\ NoDriver

\* heatbath_sweep is called; with width = 0 no loop body runs and it returns
BeginSweep ==
    /\ pc = "idle"
    /\ sweeps < MaxSweeps
    /\ lattice0' = lattice
    /\ updates' = <<>>
    /\ i' = 0 /\ j' = 0 /\ k' = 0 /\ l' = 0 /\ m' = 0
    /\ IF width = 0
       THEN pc' = "idle" /\ sweeps' = sweeps + 1
       ELSE pc' = "link" /\ sweeps' = sweeps
    /\ UNCHANGED <<width, lattice, beta, rng, locals, action,
                   driver>>

\* other_plaquettes, alpha and theta_0 of the loop body
ComputeStaple ==
    /\ pc = "link"
    /\ other_plaquettes' = CurrentStaple
    /\ alpha' = Abs(CurrentStaple)
    /\ theta_0' = -Arg(CurrentStaple)
    /\ pc' = "sample"
    /\ UNCHANGED <<width, lattice, beta, rng, counters, new_theta, action,
                   sweeps, history,
                   driver>>

\* one iteration of the loop of sample_theta that rejects its proposal
SampleReject ==
    /\ pc = "sample"
    /\ LET pf == Prefactor(alpha, beta)
           sample_x == SampleX(pf, RngF64(rng))
           s1 == RngNext(rng)
       IN  /\ ~Accepts(RngF64(s1), AcceptanceProbability(sample_x, pf))
           /\ rng' = RngNext(s1)
    /\ UNCHANGED <<width, lattice, beta, pc, counters, locals, action, sweeps,
                   history,
                   driver>>

\* the iteration of the loop of sample_theta that accepts and returns theta
SampleAccept ==
    /\ pc = "sample"
    /\ LET pf == Prefactor(alpha, beta)
           sample_x == SampleX(pf, RngF64(rng))
           s1 == RngNext(rng)
           s2 == RngNext(s1)
       IN  /\ Accepts(RngF64(s1), AcceptanceProbability(sample_x, pf))
           /\ new_theta' = ThetaOf(sample_x, RngBool(s2))
           /\ rng' = RngNext(s2)
    /\ pc' = "write"
    /\ UNCHANGED <<width, lattice, beta, counters, other_plaquettes, alpha,
                   theta_0, action, sweeps, history,
                   driver>>

\* the assignment to the link, then the loop counters advance
WriteLink ==
    /\ pc = "write"
    /\ lattice' = WriteAngle(lattice, site, m, NewAngle(new_theta, theta_0))
    /\ updates' = Append(updates, [link |-> <<i, j, k, l, m>>,
                                    angle |-> NewAngle(new_theta, theta_0)])
    /\ LET c == NextLink(<<i, j, k, l, m>>, width)
       IN  IF c[1] < width
           THEN /\ i' = c[1] /\ j' = c[2] /\ k' = c[3] /\ l' = c[4] /\ m' = c[5]
                /\ pc' = "link"
                /\ sweeps' = sweeps
           ELSE /\ UNCHANGED counters
                /\ pc' = "idle"
                /\ sweeps' = sweeps + 1
    /\ UNCHANGED <<width, beta, rng, locals, action, lattice0,
                   driver>>

\* the caller reads the observable
Measure ==
    /\ pc = "idle"
    /\ action' = AverageAction(lattice, width)
    /\ pc' = "measured"
    /\ UNCHANGED <<width, lattice, beta, rng, counters, locals, sweeps, history,
                   driver>>

\* the caller goes on
Continue ==
    /\ pc = "measured"
    /\ pc' = "idle"
    /\ UNCHANGED <<width, lattice, beta, rng, counters, locals, action, sweeps,
                   history,
                   driver>>

Next ==
    \/ BeginSweep
    \/ ComputeStaple
    \/ SampleReject
    \/ SampleAccept
    \/ WriteLink
    \/ Measure
    \/ Continue

Spec == Init /\ [][Next]_vars

\* the program keeps running: a step that can be taken is taken
FairSpec == Spec /\ WF_vars(Next)

MaxShift == 3

-----------------------------------------------------------------------------
(* Reference notions the properties are stated with *)

\* the coordinate v reduced to 0..w-1 on a ring of w sites
Wrap(v, w) == CHOOSE r \in 0..(w - 1) : \E q \in -2..2 : v = r + q * w

\* the site x moved by d steps along axis a
Shifted(x, a, d, w) == [x EXCEPT ![a + 1] = Wrap(x[a + 1] + d, w)]

\* the n-th link (n from 0) in nested ascending order i, j, k, l, axis
NthLink(n, w) ==
    <<(n \div (4 * w * w * w)) % w, (n \div (4 * w * w)) % w, (n \div (4 * w)) % w,
      (n \div 4) % w, n % 4>>

AllLinks(w) == {<<x[1], x[2], x[3], x[4], a>> : x \in Sites(w), a \in Axes}

IsUniform == \A x \in DOMAIN lattice : \A a \in Axes : lattice[x][a] = 0

SweepDone == pc = "idle" /\ sweeps > 0

-----------------------------------------------------------------------------
(* C1: average_action of a freshly built uniform lattice (all angles 0.0)  *)
(* is exactly 0.0, for every width new_uniform accepts.  Fails for width   *)
(* 0, where the result is 0.0 / 0.0.                                       *)
C1_UniformActionIsZero ==
    (pc = "measured" /\ sweeps = 0 /\ IsUniform)
        => (action.kind = "fin" /\ action.num = 0)

(* C2: for width >= 1 every index used to access the lattice (forward +1,  *)
(* backward written +W-1, combined backward-n / forward-m) lies in 0..W-1  *)
(* and is the coordinate moved by that offset on the ring: forward of W-1  *)
(* is 0 and backward of 0 is W-1, on each of the 4 axes.                   *)
C2_IndicesWrap ==
    width >= 1 =>
        /\ pc = "link" =>
           \A c \in 0..(width - 1) : \A mm \in Axes, n \in Axes, a \in Axes :
              /\ FwdIdx(c, mm, a, width) \in 0..(width - 1)
              /\ BwdIdx(c, n, a, width) \in 0..(width - 1)
              /\ BwdFwdIdx(c, n, mm, a, width) \in 0..(width - 1)
              /\ FwdIdx(c, mm, a, width) = Wrap(c + (IF a = mm THEN 1 ELSE 0), width)
              /\ BwdIdx(c, n, a, width) = Wrap(c - (IF a = n THEN 1 ELSE 0), width)
              /\ BwdFwdIdx(c, n, mm, a, width)
                     = Wrap(c - (IF a = n THEN 1 ELSE 0) + (IF a = mm THEN 1 ELSE 0),
                            width)
        /\ \A a \in Axes : /\ FwdIdx(width - 1, a, a, width) = 0
                           /\ BwdIdx(0, a, a, width) = width - 1
        /\ pc = "sample" =>
              \A n \in Axes :
                  /\ Forward(site, m, width) \in DOMAIN lattice
                  /\ Forward(site, n, width) \in DOMAIN lattice
                  /\ Backward(site, n, width) \in DOMAIN lattice
                  /\ BackwardForward(site, n, m, width) \in DOMAIN lattice
                  /\ Forward(site, m, width) = Shifted(site, m, 1, width)
                  /\ Backward(site, n, width) = Shifted(site, n, -1, width)
                  /\ n # m => BackwardForward(site, n, m, width)
                                  = Shifted(Shifted(site, n, -1, width), m, 1, width)

\* a staple was computed for a link whose forward neighbour wraps from W-1 to 0
\* and whose backward neighbours wrap from 0 to W-1
C2_Witness ==
    /\ pc = "sample" /\ width = 2
    /\ i = 0 /\ j = 0 /\ k = 0 /\ l = width - 1 /\ m = 3
    /\ Forward(site, m, width)[4] = 0
    /\ Backward(site, 0, width)[1] = width - 1

(* C3: one heatbath_sweep updates every link exactly once, 4*W^4 updates   *)
(* in all, in nested ascending order i, j, k, l, axis.                     *)
C3_SweepOrder ==
    /\ pc \in {"link", "sample", "write"} =>
          /\ Len(updates) < 4 * Pow4(width)
          /\ <<i, j, k, l, m>> = NthLink(Len(updates), width)
    /\ Len(updates) > 0 =>
          updates[Len(updates)].link = NthLink(Len(updates) - 1, width)
    /\ SweepDone =>
          /\ Len(updates) = 4 * Pow4(width)
          /\ \A n \in 1..Len(updates) : updates[n].link = NthLink(n - 1, width)
          /\ {updates[n].link : n \in 1..Len(updates)} = AllLinks(width)
          /\ Cardinality({updates[n].link : n \in 1..Len(updates)}) = Len(updates)

\* a sweep of a width-2 lattice has completed: 64 updates
C3_Witness == SweepDone /\ width = 2 /\ Len(updates) = 64

(* C4: under fair draws every call of sample_theta made by heatbath_sweep  *)
(* eventually accepts a proposal and returns, for every beta and every     *)
(* staple magnitude, so every sweep completes.  Fails when alpha * beta is *)
(* 0 (sample_x is NaN) or 2 * alpha * beta overflows exp (sample_x is inf  *)
(* or NaN): every proposal is then compared against NaN and rejected.      *)
C4_SampleThetaReturns == (pc = "sample") ~> (pc = "write")

-----------------------------------------------------------------------------
(* Reference notions for the action and the staple *)

AxisPairs == {p \in Axes \X Axes : p[1] < p[2]}

\* theta_mu(x) + theta_nu(x + mu) - theta_mu(x + nu) - theta_nu(x)
RefPhi(lat, w, x, mu, nu) ==
    lat[x][mu] + lat[Shifted(x, mu, 1, w)][nu] - lat[Shifted(x, nu, 1, w)][mu]
    - lat[x][nu]

RefPlaquettes(w) == {<<x, p[1], p[2]>> : x \in Sites(w), p \in AxisPairs}

\* sum of 1 - cos(phi) over all plaquettes: 1 for each cos = 0, 2 for each cos = -1
RefActionSum(lat, w) ==
    Cardinality({q \in RefPlaquettes(w) : Cos(RefPhi(lat, w, q[1], q[2], q[3])) = 0})
    + 2 * Cardinality({q \in RefPlaquettes(w) :
                          Cos(RefPhi(lat, w, q[1], q[2], q[3])) = -1})

MinAxis(a, b) == IF a < b THEN a ELSE b
MaxAxis(a, b) == IF a < b THEN b ELSE a

\* the lattice with c added to every link angle
GlobalShift(lat, c) == [x \in DOMAIN lat |-> [a \in Axes |-> lat[x][a] + c]]

ShiftConstants == (-MaxShift)..MaxShift

(* C5: average_action sums exactly 6*W^4 terms 1 - cos(phi), one for each  *)
(* site and each axis pair m < n, each pair once per site, with            *)
(* phi = theta_m(x) + theta_n(x+m) - theta_m(x+n) - theta_n(x), and        *)
(* divides by that count (1536 for W = 4).                                 *)
C5_ActionSum ==
    /\ NumPlaquettes(4) = 1536
    /\ pc = "measured" =>
          LET terms == ActionTerms(lattice, width)
              visited == {<<terms[t].site, terms[t].m, terms[t].n>> : t \in 1..Len(terms)}
          IN  /\ Len(terms) = 6 * Pow4(width)
              /\ visited = RefPlaquettes(width)
              /\ Cardinality(visited) = Len(terms)
              /\ \A t \in 1..Len(terms) :
                    terms[t].phi = RefPhi(lattice, width, terms[t].site,
                                          terms[t].m, terms[t].n)
              /\ NumPlaquettes(width) = Len(terms)
              /\ width >= 1 =>
                    /\ action.kind = "fin"
                    /\ action.den = 6 * Pow4(width)
                    /\ action.num = RefActionSum(lattice, width)

\* the action of a width-2 lattice with non-zero plaquette phases was measured
C5_Witness == pc = "measured" /\ width = 2 /\ action.kind = "fin" /\ action.num > 0

C8_StapleExcludesLink ==
    pc = "sample" =>
        \A v \in (-2 * Pi)..(2 * Pi) :
            PlaquettesWithoutLink(WriteAngle(lattice, site, m, v), width, site, m)
                = other_plaquettes

(* C9: the staple of each link is computed immediately before its update   *)
(* from the lattice as it is then: the new angles of the links updated     *)
(* earlier in the sweep, the old angles of the links not yet updated.      *)
LinkIndex(x, a, w) == 4 * SiteIndex(x, w) + a

IsUpdated(x, a) ==
    /\ LinkIndex(x, a, width) < Len(updates)
    /\ updates[LinkIndex(x, a, width) + 1].link = <<x[1], x[2], x[3], x[4], a>>

\* new angles where the sweep has written, angles of the sweep's start elsewhere
SweepView ==
    [x \in DOMAIN lattice0 |->
        [a \in Axes |-> IF IsUpdated(x, a)
                        THEN updates[LinkIndex(x, a, width) + 1].angle
                        ELSE lattice0[x][a]]]

C9_SequentialStaple ==
    pc = "sample" =>
        /\ other_plaquettes = PlaquettesWithoutLink(SweepView, width, site, m)
        /\ \A n \in 1..Len(updates) : \E a \in Axes :
              /\ updates[n].link[5] = a
              /\ IsUpdated(<<updates[n].link[1], updates[n].link[2],
                             updates[n].link[3], updates[n].link[4]>>, a)
        /\ ~IsUpdated(site, m)

\* a staple that differs from the one a snapshot of the sweep's start would give
C9_Witness ==
    /\ pc = "sample" /\ width = 2
    /\ other_plaquettes # PlaquettesWithoutLink(lattice0, width, site, m)

(* C10: the update step of link (i,j,k,l,m) writes exactly one angle,      *)
(* phases[m] of site (i,j,k,l) := theta + theta_0 with theta returned by   *)
(* sample_theta(alpha, beta), alpha = |S|, theta_0 = -arg(S), S the staple *)
(* of the link; every other angle and the width stay; average_action and   *)
(* plaquettes_without_link change nothing.                                 *)
C10_SingleWrite ==
    [][/\ width' = width
       /\ DOMAIN lattice' = DOMAIN lattice
       /\ \A x \in DOMAIN lattice : \A a \in Axes :
             lattice'[x][a] = IF pc = "write" /\ x = <<i, j, k, l>> /\ a = m
                              THEN new_theta + theta_0
                              ELSE lattice[x][a]
       /\ pc = "write" =>
             LET S == PlaquettesWithoutLink(lattice, width, <<i, j, k, l>>, m)
             IN  /\ other_plaquettes = S
                 /\ alpha = Abs(S)
                 /\ theta_0 = -Arg(S)
       /\ (pc = "sample" /\ pc' = "write") =>
             \E u \in 0..3, flip \in BOOLEAN :
                 new_theta' = ThetaOf(SampleX(Prefactor(alpha, beta), u), flip)
      ]_vars

\* the first link of a width-2 sweep has been written with a new angle and
\* nothing else has changed
C10_Witness ==
    /\ width = 2 /\ Len(updates) = 1 /\ pc = "link"
    /\ lattice[<<0, 0, 0, 0>>][0] = updates[1].angle
    /\ lattice[<<0, 0, 0, 0>>][0] # lattice0[<<0, 0, 0, 0>>][0]
    /\ \A x \in DOMAIN lattice : \A a \in Axes :
          (x # <<0, 0, 0, 0>> \/ a # 0) => lattice[x][a] = lattice0[x][a]

-----------------------------------------------------------------------------
(* The driver loop of the New command, src/src/main.rs.  Errors of the     *)
(* persistence collaborator (the ? after its calls) are not modelled: the  *)
(* dataset is created, resized and written as asked.                       *)

MaxDriverW == 2
MaxMeasurements == 3
MaxEquilibration == 1
MaxBetween == 1
MaxInterval == 2

\* seeds of the random source the driver runs are started from
DriverSeeds == {0, 7}

\* a row of the dataset that was allocated and not written: the fill value 0.0
FillRow(iv) == [t \in 1..iv |-> FDiv(0, 1)]

\* action_dataset.resize((rows, interval))
Resize(ds, rows, iv) ==
    [r \in 1..rows |-> IF r <= Len(ds) THEN ds[r] ELSE FillRow(iv)]

\* action_dataset.write_slice(&measurement_vector, (row, ..)), row from 0
WriteSlice(ds, v, row) == [ds EXCEPT ![row + 1] = v]

SaveDueOffByOne(n, iv) == n % iv = 0

\* (i + 1) % settings.interval == 0
SaveDue(n, iv) == (n + 1) % iv = 0

\* measurement_vector.clear()
Clear(v) == <<>>

\* lattice.heatbath_sweep(settings.beta, &mut rng) is called from main
CallHeatbathSweep ==
    /\ pc = "idle"
    /\ lattice0' = lattice
    /\ updates' = <<>>
    /\ i' = 0 /\ j' = 0 /\ k' = 0 /\ l' = 0 /\ m' = 0
    /\ IF width = 0
       THEN pc' = "idle" /\ sweeps' = sweeps + 1
       ELSE pc' = "link" /\ sweeps' = sweeps
    /\ UNCHANGED <<width, lattice, beta, rng, locals, action>>

core == <<width, lattice, beta, rng, pc, counters, locals, action, sweeps,
          history>>

\* the New command starts: the lattice is built, the burn-in loop is next
DriverInit ==
    /\ width \in 0..MaxDriverW
    /\ beta \in Betas
    /\ \E seed \in DriverSeeds, ordered \in BOOLEAN :
          IF ordered
          THEN lattice = NewUniform(width) /\ rng = seed
          ELSE lattice = NewRandom(width, seed)
               /\ rng = RngSkip(seed, 4 * Pow4(width))
    /\ pc = "idle"
    /\ i = 0 /\ j = 0 /\ k = 0 /\ l = 0 /\ m = 0
    /\ other_plaquettes = <<0, 0>>
    /\ alpha = [sq |-> 0]
    /\ theta_0 = 0
    /\ new_theta = 0
    /\ action = FDiv(0, 1)
    /\ sweeps = 0
    /\ lattice0 = lattice
    /\ updates = <<>>
    /\ settings \in [measurements : 0..MaxMeasurements,
                     equilibration_sweeps : 0..MaxEquilibration,
                     sweeps_between_measurements : 0..MaxBetween,
                     interval : 0..MaxInterval]
    /\ dpc = "burn_in"
    /\ burn_in = 0 /\ meas_i = 0 /\ between = 0
    /\ measurement_vector = <<>>
    /\ save_counter = 0
    /\ action_dataset = <<>>
    /\ taken = <<>>

\* one iteration of the burn-in loop
BurnInSweep ==
    /\ dpc = "burn_in"
    /\ burn_in < settings.equilibration_sweeps
    /\ CallHeatbathSweep
    /\ burn_in' = burn_in + 1
    /\ UNCHANGED <<settings, dpc, meas_i, between, measurement_vector,
                   save_counter, action_dataset, taken>>

\* the burn-in loop is over: the buffer and save_counter are set up
BurnInDone ==
    /\ dpc = "burn_in"
    /\ pc = "idle"
    /\ burn_in = settings.equilibration_sweeps
    /\ measurement_vector' = <<>>
    /\ save_counter' = 0
    /\ meas_i' = 0
    /\ between' = 0
    /\ dpc' = "between"
    /\ UNCHANGED <<core, settings, burn_in, action_dataset, taken>>

\* one iteration of the inner loop of the measurement loop
BetweenSweep ==
    /\ dpc = "between"
    /\ meas_i < settings.measurements
    /\ between < settings.sweeps_between_measurements
    /\ CallHeatbathSweep
    /\ between' = between + 1
    /\ UNCHANGED <<settings, dpc, burn_in, meas_i, measurement_vector,
                   save_counter, action_dataset, taken>>

\* measurement_vector.push(lattice.average_action())
TakeMeasurement ==
    /\ dpc = "between"
    /\ pc = "idle"
    /\ meas_i < settings.measurements
    /\ between = settings.sweeps_between_measurements
    /\ action' = AverageAction(lattice, width)
    /\ measurement_vector' = Append(measurement_vector, AverageAction(lattice, width))
    /\ taken' = Append(taken, [value |-> AverageAction(lattice, width),
                               sweeps |-> sweeps])
    /\ dpc' = "save_test"
    /\ UNCHANGED <<width, lattice, beta, rng, pc, counters, locals, sweeps,
                   history, settings, burn_in, meas_i, between, save_counter,
                   action_dataset>>

\* the remainder is 0: the buffer is written as row save_counter and cleared
SaveBatch ==
    /\ dpc = "save_test"
    /\ settings.interval # 0
    /\ SaveDue(meas_i, settings.interval)
    /\ action_dataset' = WriteSlice(Resize(action_dataset, save_counter + 1,
                                           settings.interval),
                                    measurement_vector, save_counter)
    /\ measurement_vector' = Clear(measurement_vector)
    /\ save_counter' = save_counter + 1
    /\ meas_i' = meas_i + 1
    /\ between' = 0
    /\ dpc' = "between"
    /\ UNCHANGED <<core, settings, burn_in, taken>>

\* the remainder is not 0: the measurement stays in the buffer
SkipSave ==
    /\ dpc = "save_test"
    /\ settings.interval # 0
    /\ ~SaveDue(meas_i, settings.interval)
    /\ meas_i' = meas_i + 1
    /\ between' = 0
    /\ dpc' = "between"
    /\ UNCHANGED <<core, settings, burn_in, measurement_vector, save_counter,
                   action_dataset, taken>>

\* interval is 0: the remainder (i + 1) % 0 panics
RemainderPanics ==
    /\ dpc = "save_test"
    /\ settings.interval = 0
    /\ dpc' = "panicked"
    /\ UNCHANGED <<core, settings, burn_in, meas_i, between, measurement_vector,
                   save_counter, action_dataset, taken>>

\* the measurement loop is over: "simulation complete"
Complete ==
    /\ dpc = "between"
    /\ pc = "idle"
    /\ meas_i = settings.measurements
    /\ dpc' = "done"
    /\ UNCHANGED <<core, settings, burn_in, meas_i, between, measurement_vector,
                   save_counter, action_dataset, taken>>

DriverNext ==
    \/ BurnInSweep
    \/ BurnInDone
    \/ BetweenSweep
    \/ TakeMeasurement
    \/ SaveBatch
    \/ SkipSave
    \/ RemainderPanics
    \/ Complete
    \/ ComputeStaple
    \/ SampleReject
    \/ SampleAccept
    \/ WriteLink

DriverSpec == DriverInit /\ [][DriverNext]_vars

\* the values of the measurements number from..to, in the order taken
TakenValues(from, to) == [t \in 1..(to - from + 1) |-> taken[from + t - 1].value]

====
